---- MODULE Spec2Model ----
(***************************************************************************)
(* State-machine model of the CRM query tools: the two command-line tools  *)
(* (sfdc_query_tool.py, hubspot_query_tool.py) and the web clients of      *)
(* pages/CRM_Tools.py.  One behaviour is one run of one tool.  Every       *)
(* outbound request is appended to `log` together with the outcome the     *)
(* remote side chose for it.                                               *)
(***************************************************************************)
EXTENDS Integers, Sequences, FiniteSets, TLC

VARIABLES
    tool,          \* "sf_cli" | "sf_web" | "hs_cli" | "hs_web"
    op,            \* "query" | "discover"
    cfg,           \* the run's parameters (CONFIG / the widgets' values)
    pc,            \* position of the run
    credentials,   \* the credential blob held by the run (NoCredentials when none)
    instance_url,  \* Salesforce: instance URL in use
    access_token,  \* Salesforce: access token in use
    soql,          \* Salesforce: the SOQL text built for the run
    phase,         \* Salesforce: "initial" | "reauth" (inside the 401 handler)
    hs_token,      \* HubSpot client: self.token
    hs_auth_type,  \* HubSpot client: self.auth_type
    records,       \* HubSpot fetch-all: the records accumulated so far
    after,         \* HubSpot fetch-all: the cursor carried to the next request
    objects,       \* discovery: the objects that survived the filter
    rows,          \* discovery: the result rows produced so far
    log,           \* every request attempted so far, in order
    outcome        \* [status, error, detail]: how the run ended

sfLocals == <<instance_url, access_token, soql, phase>>
hsLocals == <<hs_token, hs_auth_type, records, after>>
discLocals == <<objects, rows>>
run == <<tool, op, cfg>>

vars == <<tool, op, cfg, pc, credentials, instance_url, access_token, soql,
          phase, hs_token, hs_auth_type, records, after, objects, rows,
          log, outcome>>

(***************************************************************************)
(* Python values.                                                          *)
(***************************************************************************)
None == "<None>"
EmptyDict == [k \in {} |-> ""]

\* the value of `credentials` while the run holds no blob
NoCredentials == ("<unset>" :> "")

\* dict.get(k): the value, or None when the key is missing
Get(d, k) == IF k \in DOMAIN d THEN d[k] ELSE None

\* dict.get(k, dflt)
GetOr(d, k, dflt) == IF k \in DOMAIN d THEN d[k] ELSE dflt

\* truth value of a string-or-None
Truthy(v) == v # None /\ v # ""

Field(k, v) == IF v = None THEN EmptyDict ELSE (k :> v)

(***************************************************************************)
(* Salesforce credential blobs the secret store can hold.                  *)
(***************************************************************************)
SfUrl == "https://sf.example"
LoginUrl == "https://login.salesforce.com"

UserPass(up) == IF up THEN ("username" :> "user") @@ ("password" :> "pw") ELSE EmptyDict
ClientKeys(cc) == IF cc THEN ("client_id" :> "cid") @@ ("client_secret" :> "csec") ELSE EmptyDict

SfBlobs ==
    { Field("instance_url", iu) @@ Field("access_token", at) @@ Field("refresh_token", rt)
        @@ UserPass(up) @@ Field("security_token", IF up THEN st ELSE None) @@ ClientKeys(cc) :
        iu \in {None, "", SfUrl}, at \in {None, "", "stored-token"}, rt \in {None, "rt"},
        up \in BOOLEAN, st \in {None, "sec"}, cc \in BOOLEAN }

(***************************************************************************)
(* The request log.                                                        *)
(***************************************************************************)
\* seconds; every requests.get / requests.post of the web client passes it
REQUEST_TIMEOUT == 10

\* the timeout= argument of an HTTP call, as the set of timeouts passed: the
\* command-line tools pass none
TimeoutPassed(kind) ==
    IF kind # "secret" /\ tool \in {"sf_web", "hs_web"} THEN {REQUEST_TIMEOUT} ELSE {}

\* the calls the HubSpot client makes through _get / _post
HsKinds ==
    {"hs:properties", "hs:count", "hs:list", "hs:search", "hs:fetch_page", "hs:schemas"}

\* the headers of a HubSpot API call (recorded for the HubSpot client only):
\* Content-Type, and Authorization when auth_type is 'bearer'
Headers(kind) ==
    IF kind \in HsKinds
    THEN ("Content-Type" :> "application/json")
           @@ (IF hs_auth_type = "bearer" THEN ("Authorization" :> "Bearer " \o hs_token)
               ELSE EmptyDict)
    ELSE EmptyDict

\* the key put into the query string whatever the transport
ParamsAlways(kind) ==
    IF kind \in HsKinds THEN ("hapikey" :> hs_token) ELSE EmptyDict

\* the credential part of the query string of a HubSpot API call: hapikey when
\* auth_type is not 'bearer' (command line), when it is 'hapikey' (web)
Params(kind) ==
    IF kind \in HsKinds
         /\ (IF tool = "hs_web" THEN hs_auth_type = "hapikey" ELSE hs_auth_type # "bearer")
    THEN ("hapikey" :> hs_token)
    ELSE EmptyDict

Req(kind, url, arg, status) ==
    [kind |-> kind, url |-> url, arg |-> arg, status |-> status, n |-> 0, after |-> None,
     got |-> 0, next |-> None, body |-> EmptyDict, timeout |-> TimeoutPassed(kind),
     headers |-> Headers(kind), params |-> Params(kind)]

\* the JSON body of a response
WithBody(r, body) == [r EXCEPT !.body = body]

\* milliseconds (0.1 s); the web client sleeps this long after a discovery count
DISCOVER_DELAY == 100

\* time.sleep(DISCOVER_DELAY)
Sleep ==
    [kind |-> "sleep", url |-> "", arg |-> "", status |-> "ok", n |-> DISCOVER_DELAY,
     after |-> None, got |-> 0, next |-> None, body |-> EmptyDict, timeout |-> {},
     headers |-> EmptyDict, params |-> EmptyDict]

\* the pause after a discovery count, in the variants that have one
Pause == IF tool \in {"sf_web", "hs_web"} THEN << Sleep >> ELSE << >>

\* a paginated search request: page size n, cursor after
PageReq(url, arg, n, cursor, status) ==
    [kind |-> "hs:fetch_page", url |-> url, arg |-> arg, status |-> status,
     n |-> n, after |-> cursor, got |-> 0, next |-> None, body |-> EmptyDict,
     timeout |-> TimeoutPassed("hs:fetch_page"),
     headers |-> Headers("hs:fetch_page"), params |-> Params("hs:fetch_page")]

\* the response to a request: a page of m records and the cursor of its paging envelope
Answered(r, m, cursor) == [r EXCEPT !.got = m, !.next = cursor]

TokenKinds == {"token:refresh_token", "token:password", "token:client_credentials"}

Running == [status |-> "running", error |-> None, detail |-> {}]
Ok == [status |-> "ok", error |-> None, detail |-> {}]
Error(e) == [status |-> "error", error |-> e, detail |-> {}]
ErrorWith(e, d) == [status |-> "error", error |-> e, detail |-> d]

(***************************************************************************)
(* Salesforce: SOQL construction.                                          *)
(***************************************************************************)
SfObject == "Account"

BuildSoql(query_type, custom_query) ==
    IF Truthy(custom_query) THEN custom_query
    ELSE IF query_type = "count" THEN "SELECT COUNT() FROM " \o SfObject
    ELSE IF query_type = "list" THEN "SELECT Id, Name FROM " \o SfObject \o " LIMIT 20"
    ELSE IF query_type = "all" THEN "SELECT FIELDS(ALL) FROM " \o SfObject \o " LIMIT n"
    ELSE "SELECT Id FROM " \o SfObject \o " LIMIT 10"

(***************************************************************************)
(* Salesforce: token resolution.                                           *)
(***************************************************************************)
\* get_salesforce_access_token's first test: the stored token is returned
StoredTokenShortcut(creds, force_refresh) ==
    "access_token" \in DOMAIN creds /\ ~force_refresh

\* the URL the token requests go to
TokenUrl ==
    IF tool = "sf_cli" THEN GetOr(credentials, "instance_url", LoginUrl)
    ELSE instance_url

HasClientKeys(creds) == {"client_id", "client_secret"} \subseteq DOMAIN creds

\* the block entered after the refresh-token block
AfterRefresh(creds) ==
    IF "username" \in DOMAIN creds /\ "password" \in DOMAIN creds
    THEN "grant_password" ELSE "grant_cc"

\* the first block of the grant sequence
FirstGrant(creds) ==
    IF "refresh_token" \in DOMAIN creds THEN "grant_refresh" ELSE AfterRefresh(creds)

\* the password sent by the password grant
PasswordSent(creds) ==
    IF tool = "sf_cli"
    THEN IF "security_token" \in DOMAIN creds
         THEN creds["password"] \o creds["security_token"] ELSE creds["password"]
    ELSE creds["password"] \o GetOr(creds, "security_token", "")

\* the token the token endpoint hands out for a grant
IssuedToken(kind) == "issued-by-" \o kind

Fail(e) == /\ pc' = "done"
           /\ outcome' = Error(e)

Goto(p) == /\ pc' = p
           /\ outcome' = outcome

\* what the run does once it holds a token; url is the instance URL of the run
Proceed(tok, creds, url) ==
    /\ access_token' = tok
    /\ IF phase = "reauth"
       THEN /\ instance_url' = Get(creds, "instance_url")
            /\ soql' = soql
            /\ IF ~Truthy(Get(creds, "instance_url"))
               THEN Fail("ValueError: instance_url not found in refreshed credentials")
               ELSE Goto("retry")
       ELSE /\ instance_url' = url
            /\ IF op = "discover"
               THEN soql' = soql /\ Goto("sobjects")
               ELSE IF cfg.query_type = "shape"
               THEN soql' = soql /\ Goto("describe")
               ELSE soql' = BuildSoql(cfg.query_type, cfg.custom_query) /\ Goto("query")

\* one block of the grant sequence: build the form, post it, handle the answer
GrantBlock(block, kind, arg, next) ==
    /\ pc = block
    /\ tool \in {"sf_cli", "sf_web"}
    /\ IF ~HasClientKeys(credentials)
       THEN \* KeyError while the form is built
            /\ log' = log
            /\ IF tool = "sf_web" /\ next # None
               THEN Goto(next) ELSE Fail("KeyError:" \o kind)
            /\ UNCHANGED <<access_token, instance_url, soql>>
       ELSE IF TokenUrl = ""
       THEN \* requests refuses the URL "/services/oauth2/token": nothing is sent
            /\ log' = Append(log, Req(kind, "", arg, "not_sent"))
            /\ IF next # None THEN Goto(next) ELSE Fail("RequestException")
            /\ UNCHANGED <<access_token, instance_url, soql>>
       ELSE \E st \in {"ok", "fail"} :
            /\ log' = Append(log, Req(kind, TokenUrl, arg, st))
            /\ IF st = "ok" THEN Proceed(IssuedToken(kind), credentials, instance_url)
               ELSE /\ IF next # None THEN Goto(next) ELSE Fail("TokenError")
                    /\ UNCHANGED <<access_token, instance_url, soql>>
    /\ UNCHANGED <<hsLocals, discLocals>>
    /\ UNCHANGED <<tool, op, cfg, credentials, phase>>

SfRefreshGrant ==
    GrantBlock("grant_refresh", "token:refresh_token", Get(credentials, "refresh_token"),
               AfterRefresh(credentials))

SfPasswordGrant ==
    GrantBlock("grant_password", "token:password", PasswordSent(credentials), "grant_cc")

SfClientCredentialsGrant ==
    GrantBlock("grant_cc", "token:client_credentials", "", None)

(***************************************************************************)
(* Salesforce: the run.                                                    *)
(***************************************************************************)
SecretPath == "customer/salesforce"

\* the instance URL kept after the fetch
LoadedUrl(b) == IF tool = "sf_web" THEN GetOr(b, "instance_url", "") ELSE Get(b, "instance_url")

\* fetch the secret, check instance_url, pick the token
SfLoadSecret ==
    /\ pc = "start"
    /\ tool \in {"sf_cli", "sf_web"}
    /\ \/ /\ log' = Append(log, Req("secret", "aws", SecretPath, "fail"))
          /\ Fail("SecretError")
          /\ UNCHANGED <<credentials, access_token, instance_url, soql>>
       \/ \E b \in SfBlobs :
          /\ log' = Append(log, Req("secret", "aws", SecretPath, "ok"))
          /\ credentials' = b
          /\ IF ~Truthy(LoadedUrl(b))
             THEN /\ Fail("ValueError: instance_url not found in credentials")
                  /\ instance_url' = LoadedUrl(b)
                  /\ UNCHANGED <<access_token, soql>>
             ELSE IF cfg.always_use_oauth
             THEN \* force_refresh=True / force=True
                  /\ Goto(FirstGrant(b))
                  /\ instance_url' = LoadedUrl(b)
                  /\ UNCHANGED <<access_token, soql>>
             ELSE IF Truthy(Get(b, "access_token"))
             THEN Proceed(b["access_token"], b, LoadedUrl(b))
             ELSE IF tool = "sf_cli" /\ StoredTokenShortcut(b, FALSE)
             THEN Proceed(b["access_token"], b, LoadedUrl(b))
             ELSE /\ Goto(FirstGrant(b))
                  /\ instance_url' = LoadedUrl(b)
                  /\ UNCHANGED <<access_token, soql>>
    /\ UNCHANGED <<hsLocals, discLocals>>
    /\ UNCHANGED <<tool, op, cfg, phase>>

QueryStatuses == {"ok", "http401", "http500", "conn_error"}

\* how a failed request surfaces
ErrorOf(st) == IF st = "conn_error" THEN "ConnectionError" ELSE "HTTPError:" \o st

\* a call whose failure is not raised
RaisedSwallowed(st) == Ok

\* response.raise_for_status(): how the call ends for the caller
Raised(st) == IF st = "ok" THEN Ok ELSE Error(ErrorOf(st))

\* a handler that forgets the auto_refresh flag
CatchesUnauthorizedAlways(st) == tool = "sf_cli" /\ st = "http401"

\* except HTTPError as e: if e.response.status_code == 401 and auto_refresh
CatchesUnauthorized(st) == tool = "sf_cli" /\ st = "http401" /\ cfg.auto_refresh

\* the describe call of the 'shape' query type
SfDescribe ==
    /\ pc = "describe"
    /\ tool \in {"sf_cli", "sf_web"}
    /\ \E st \in QueryStatuses :
       /\ log' = Append(log, Req("describe", instance_url, SfObject, st))
       /\ pc' = "done"
       /\ outcome' = Raised(st)
    /\ UNCHANGED <<hsLocals, discLocals>>
    /\ UNCHANGED <<tool, op, cfg, credentials, instance_url, access_token, soql, phase>>

\* the query call; the command-line tool catches a 401 when auto_refresh is set
SfQuery ==
    /\ pc = "query"
    /\ tool \in {"sf_cli", "sf_web"}
    /\ \E st \in QueryStatuses :
       /\ log' = Append(log, Req("query", instance_url, soql, st))
       /\ IF st = "ok" THEN pc' = "done" /\ outcome' = Ok
          ELSE IF CatchesUnauthorized(st)
          THEN Goto("refetch")
          ELSE Fail(ErrorOf(st))
    /\ UNCHANGED <<hsLocals, discLocals>>
    /\ UNCHANGED <<tool, op, cfg, credentials, instance_url, access_token, soql, phase>>

\* the 401 handler: get_secret(force_refresh=True), then a forced token resolution
SfRefetchSecret ==
    /\ pc = "refetch"
    /\ tool = "sf_cli"
    /\ \/ /\ log' = Append(log, Req("secret", "aws", SecretPath, "fail"))
          /\ Fail("SecretError")
          /\ UNCHANGED <<credentials, phase>>
       \/ /\ log' = log \o << Req("secret", "aws", SecretPath, "ok"),
                              Req("secret", "aws", SecretPath, "fail") >>
          /\ Fail("SecretError")
          /\ UNCHANGED <<credentials, phase>>
       \/ \E b \in SfBlobs :
          /\ log' = log \o << Req("secret", "aws", SecretPath, "ok"),
                              Req("secret", "aws", SecretPath, "ok") >>
          /\ credentials' = b
          /\ phase' = "reauth"
          /\ Goto(FirstGrant(b))
    /\ UNCHANGED <<hsLocals, discLocals>>
    /\ UNCHANGED <<tool, op, cfg, instance_url, access_token, soql>>

\* the retried query of the 401 handler
SfRetryQuery ==
    /\ pc = "retry"
    /\ tool = "sf_cli"
    /\ \E st \in QueryStatuses :
       /\ log' = Append(log, Req("query", instance_url, soql, st))
       /\ pc' = "done"
       /\ outcome' = Raised(st)
    /\ UNCHANGED <<hsLocals, discLocals>>
    /\ UNCHANGED <<tool, op, cfg, credentials, instance_url, access_token, soql, phase>>

(***************************************************************************)
(* Text: names are spelled out so that lower(), title() and `in` act on    *)
(* characters.                                                             *)
(***************************************************************************)
Spell ==
    ("deals" :> <<"d", "e", "a", "l", "s">>)
    @@ ("line_items" :> <<"l", "i", "n", "e", "_", "i", "t", "e", "m", "s">>)
    @@ ("p1_car" :> <<"p", "1", "_", "c", "a", "r">>)
    @@ ("Car" :> <<"C", "a", "r">>)
    @@ ("car" :> <<"c", "a", "r">>)
    @@ ("Account" :> <<"A", "c", "c", "o", "u", "n", "t">>)
    @@ ("Lead" :> <<"L", "e", "a", "d">>)
    @@ ("Team" :> <<"T", "e", "a", "m">>)
    @@ ("p1_lead" :> <<"p", "1", "_", "l", "e", "a", "d">>)
    @@ ("" :> << >>)
    @@ ("ea" :> <<"e", "a">>)
    @@ ("CAR" :> <<"C", "A", "R">>)
    @@ ("Deals" :> <<"D", "e", "a", "l", "s">>)
    @@ ("Line_Items" :> <<"L", "i", "n", "e", "_", "I", "t", "e", "m", "s">>)
    @@ ("id" :> <<"i", "d">>)
    @@ ("Id" :> <<"I", "d">>)
    @@ ("AccountId" :> <<"A", "c", "c", "o", "u", "n", "t", "I", "d">>)
    @@ ("Name" :> <<"N", "a", "m", "e">>)
    @@ ("a" :> <<"a">>)
    @@ ("b" :> <<"b">>)
    @@ ("attributes" :> <<"a", "t", "t", "r", "i", "b", "u", "t", "e", "s">>)

LowerLetters == <<"a", "b", "c", "d", "e", "f", "g", "h", "i", "j", "k", "l", "m", "n", "o", "p", "q", "r", "s", "t", "u", "v", "w", "x", "y", "z">>
UpperLetters == <<"A", "B", "C", "D", "E", "F", "G", "H", "I", "J", "K", "L", "M", "N", "O", "P", "Q", "R", "S", "T", "U", "V", "W", "X", "Y", "Z">>

LowerChar(c) ==
    IF \E i \in 1..Len(UpperLetters) : UpperLetters[i] = c
    THEN LowerLetters[CHOOSE i \in 1..Len(UpperLetters) : UpperLetters[i] = c] ELSE c

UpperChar(c) ==
    IF \E i \in 1..Len(LowerLetters) : LowerLetters[i] = c
    THEN UpperLetters[CHOOSE i \in 1..Len(LowerLetters) : LowerLetters[i] = c] ELSE c

IsLetter(c) == LowerChar(c) # UpperChar(c)

\* str.lower()
Lower(w) == [i \in 1..Len(w) |-> LowerChar(w[i])]

\* str.title(): a letter is upper-cased after a non-letter, lower-cased after a letter
Title(w) ==
    [i \in 1..Len(w) |->
        IF i = 1 \/ ~IsLetter(w[i - 1]) THEN UpperChar(w[i]) ELSE LowerChar(w[i])]

\* `t in w` on strings
Contains(t, w) ==
    \E i \in 0..(Len(w) - Len(t)) : SubSeq(w, i + 1, i + Len(t)) = t

\* a filter test that looks at the name only
MatchesName(search_filter, o) ==
    Contains(Lower(Spell[search_filter]), Lower(o.name_chars))

\* a filter test that compares the characters as they are
MatchesExactCase(search_filter, o) ==
    Contains(Spell[search_filter], o.name_chars) \/ Contains(Spell[search_filter], o.label_chars)

\* the test of the filter comprehension: term in name.lower() or term in label.lower()
Matches(search_filter, o) ==
    LET term == Lower(Spell[search_filter])
    IN Contains(term, Lower(o.name_chars)) \/ Contains(term, Lower(o.label_chars))

\* the list comprehension [o for o in all_objects if ...]
RECURSIVE Filtered(_, _)
Filtered(search_filter, objs) ==
    IF objs = << >> THEN << >>
    ELSE IF Matches(search_filter, Head(objs))
         THEN << Head(objs) >> \o Filtered(search_filter, Tail(objs))
         ELSE Filtered(search_filter, Tail(objs))

\* if search_filter: ... else: all objects
ApplyFilter(search_filter, objs) ==
    IF Truthy(search_filter) THEN Filtered(search_filter, objs) ELSE objs

\* str(count) if count >= 0 else "Error"
CountStr(count) == IF count >= 0 THEN ToString(count) ELSE "Error"

\* the totals a count response can report
Totals == {0, 7}

\* the bodies of a successful count response: with the total under key, or without
CountBodies(key) == {EmptyDict} \cup { key :> t : t \in Totals }

\* count_records / count, without the default of .get
CountResultNoDefault(st, body, key) ==
    IF st = "ok" /\ key \in DOMAIN body THEN body[key] ELSE 0 - 1

\* count_records / count: the reported total, 0 when none is reported, -1 on any
\* exception
CountResult(st, body, key) == IF st = "ok" THEN GetOr(body, key, 0) ELSE 0 - 1

MaxObjects == 2

\* sequences without repetition of at most MaxObjects members of pool
Lists(pool) ==
    UNION { { q \in [1..n -> pool] : \A i, j \in 1..n : i # j => q[i] # q[j] } :
            n \in 0..MaxObjects }

(***************************************************************************)
(* Salesforce: discovery.                                                  *)
(***************************************************************************)
SfObj(name, label, queryable) ==
    [name |-> name, label |-> label, queryable |-> queryable,
     name_chars |-> Spell[name], label_chars |-> Spell[label], type |-> "sobject"]

\* what the sobjects listing can return (label: obj.get('label', ''),
\* queryable: obj.get('queryable', False))
SfObjectPool ==
    { SfObj("Account", "Team", TRUE), SfObj("Lead", "", TRUE), SfObj("Car", "car", FALSE) }

\* the sobjects listing, then the filter
SfListObjects ==
    /\ pc = "sobjects"
    /\ tool \in {"sf_cli", "sf_web"}
    /\ \E st \in QueryStatuses :
       /\ IF st # "ok"
          THEN /\ log' = Append(log, Req("sobjects", instance_url, "", st))
               /\ Fail(ErrorOf(st))
               /\ UNCHANGED <<objects, rows>>
          ELSE \E all_objects \in Lists(SfObjectPool) :
               LET filtered == ApplyFilter(cfg.search_filter, all_objects)
               IN /\ log' = Append(log, WithBody(Req("sobjects", instance_url, "", st),
                                                 "sobjects" :> all_objects))
                  /\ objects' = filtered
                  /\ rows' = << >>
                  /\ IF filtered = << >>
                     THEN pc' = "done" /\ outcome' = Ok
                     ELSE Goto("sf_count")
    /\ credentials' = NoCredentials      \* not read again by the discovery run
    /\ UNCHANGED <<run, sfLocals, hsLocals>>

\* the loop's test, counting whatever is listed
IsQueryableAlways(obj) == TRUE

\* is_queryable = obj.get('queryable', False)
IsQueryable(obj) == obj.queryable

\* one iteration of the counting loop: count_records for a queryable object
SfCountObject ==
    /\ pc = "sf_count"
    /\ tool \in {"sf_cli", "sf_web"}
    /\ LET obj == objects[Len(rows) + 1]
           last == Len(rows) + 1 = Len(objects)
       IN /\ IF IsQueryable(obj)
             THEN \E st \in QueryStatuses, body \in CountBodies("totalSize") :
                  /\ st # "ok" => body = EmptyDict
                  /\ log' = log \o << WithBody(Req("query", instance_url,
                                            "SELECT COUNT() FROM " \o obj.name, st), body) >>
                                 \o Pause
                  /\ rows' = Append(rows, [name |-> obj.name,
                                           count |-> CountStr(CountResult(st, body, "totalSize"))])
             ELSE /\ log' = log
                  /\ rows' = Append(rows, [name |-> obj.name, count |-> "N/A"])
          /\ IF last THEN pc' = "done" /\ outcome' = Ok ELSE Goto("sf_count")
    /\ UNCHANGED <<run, credentials, sfLocals, hsLocals, objects>>

(***************************************************************************)
(* HubSpot: auth resolution.                                               *)
(***************************************************************************)
HsBlobs ==
    { Field("hapikey", hk) @@ Field("client_id", ci) @@ Field("client_secret", cs)
        @@ Field("refresh_token", rt) @@ Field("access_token", at) @@ Field("token", tk)
        @@ Field("api_key", ak) :
        hk \in {None, "", "hk"}, ci \in {None, "cid"}, cs \in {None, "csec"},
        rt \in {None, "rt-A", "rt-B"}, at \in {None, "", "at"}, tk \in {None, "", "tk"},
        ak \in {None, "ak"} }

HsTokenUrl == "https://api.hubapi.com/oauth/v1/token"
HsBase == "https://api.hubapi.com"

\* has_oauth = all(k in credentials for k in (...))
HasOauth(creds) == {"client_id", "client_secret", "refresh_token"} \subseteq DOMAIN creds

\* the stored keys tried in another order
StoredKeyReordered(creds) ==
    IF Truthy(Get(creds, "token")) THEN "token"
    ELSE IF Truthy(Get(creds, "access_token")) THEN "access_token"
    ELSE IF Truthy(Get(creds, "api_key")) THEN "api_key"
    ELSE None

\* the first key of (access_token, token, api_key) holding a truthy value, or None
StoredKey(creds) ==
    IF Truthy(Get(creds, "access_token")) THEN "access_token"
    ELSE IF Truthy(Get(creds, "token")) THEN "token"
    ELSE IF Truthy(Get(creds, "api_key")) THEN "api_key"
    ELSE None

\* the text of the ValueError raised when nothing is usable
NoTokenText ==
    IF tool = "hs_cli" THEN "ValueError: No token found in credentials. Found keys:"
    ELSE "ValueError: No usable token found. Keys present:"

\* a listing that shows the values next to the keys
NoTokenDetailWithValues(creds) == DOMAIN creds \cup { creds[k] : k \in DOMAIN creds }

\* the key listing of that error: list(credentials.keys())
NoTokenDetail(creds) == DOMAIN creds

AuthOk(tok, type, reqs) ==
    [token |-> tok, auth_type |-> type, error |-> None, detail |-> {}, requests |-> reqs]

AuthError(e, d, reqs) ==
    [token |-> None, auth_type |-> None, error |-> e, detail |-> d, requests |-> reqs]

\* the OAuth refresh tried before the legacy key
AuthenticateOauthFirst(creds, always_refresh, exch) ==
    IF always_refresh /\ HasOauth(creds)
    THEN LET req == Req("token:hubspot_refresh", HsTokenUrl, creds["refresh_token"], exch)
         IN IF exch = "ok"
            THEN AuthOk(IssuedToken("token:hubspot_refresh"), "bearer", << req >>)
            ELSE AuthError("TokenError", {}, << req >>)
    ELSE IF Truthy(Get(creds, "hapikey"))
    THEN AuthOk(creds["hapikey"], "hapikey", << >>)
    ELSE IF StoredKey(creds) # None
    THEN AuthOk(creds[StoredKey(creds)], "bearer", << >>)
    ELSE AuthError(NoTokenText, NoTokenDetail(creds), << >>)

\* a stored token preferred to the OAuth refresh
AuthenticateStoredFirst(creds, always_refresh, exch) ==
    IF Truthy(Get(creds, "hapikey"))
    THEN AuthOk(creds["hapikey"], "hapikey", << >>)
    ELSE IF StoredKey(creds) # None
    THEN AuthOk(creds[StoredKey(creds)], "bearer", << >>)
    ELSE IF always_refresh /\ HasOauth(creds)
    THEN LET req == Req("token:hubspot_refresh", HsTokenUrl, creds["refresh_token"], exch)
         IN IF exch = "ok"
            THEN AuthOk(IssuedToken("token:hubspot_refresh"), "bearer", << req >>)
            ELSE AuthError("TokenError", {}, << req >>)
    ELSE AuthError(NoTokenText, NoTokenDetail(creds), << >>)

\* a failed exchange falling through to the stored token
AuthenticateFallback(creds, always_refresh, exch) ==
    IF Truthy(Get(creds, "hapikey"))
    THEN AuthOk(creds["hapikey"], "hapikey", << >>)
    ELSE IF always_refresh /\ HasOauth(creds) /\ (exch = "ok" \/ StoredKey(creds) = None)
    THEN LET req == Req("token:hubspot_refresh", HsTokenUrl, creds["refresh_token"], exch)
         IN IF exch = "ok"
            THEN AuthOk(IssuedToken("token:hubspot_refresh"), "bearer", << req >>)
            ELSE AuthError("TokenError", {}, << req >>)
    ELSE IF StoredKey(creds) # None
    THEN AuthOk(creds[StoredKey(creds)], "bearer",
                IF always_refresh /\ HasOauth(creds)
                THEN << Req("token:hubspot_refresh", HsTokenUrl, creds["refresh_token"], exch) >>
                ELSE << >>)
    ELSE AuthError(NoTokenText, NoTokenDetail(creds), << >>)

\* authenticate / _authenticate; exch is the answer of the token endpoint, used
\* only if the refresh-token exchange is made
Authenticate(creds, always_refresh, exch) ==
    IF Truthy(Get(creds, "hapikey"))
    THEN AuthOk(creds["hapikey"], "hapikey", << >>)
    ELSE IF always_refresh /\ HasOauth(creds)
    THEN LET req == Req("token:hubspot_refresh", HsTokenUrl, creds["refresh_token"], exch)
         IN IF exch = "ok"
            THEN AuthOk(IssuedToken("token:hubspot_refresh"), "bearer", << req >>)
            ELSE AuthError("TokenError", {}, << req >>)
    ELSE IF StoredKey(creds) # None
    THEN AuthOk(creds[StoredKey(creds)], "bearer", << >>)
    ELSE AuthError(NoTokenText, NoTokenDetail(creds), << >>)

(***************************************************************************)
(* HubSpot: the run.                                                       *)
(***************************************************************************)
HsSecretPath == "customer/hubspot"
HsObject == "contacts"
HsPageMax == 100

Min(a, b) == IF a < b THEN a ELSE b

\* where the run goes after authentication
HsDispatch ==
    IF op = "discover" THEN "hs_schemas"
    ELSE IF cfg.query_type = "shape" THEN "hs_shape"
    ELSE IF cfg.query_type = "count" THEN "hs_count"
    ELSE IF cfg.query_type = "list" THEN "hs_list"
    ELSE IF cfg.query_type = "all" THEN "hs_all_props"
    ELSE "hs_search"

\* get_secret / load_secret, then authenticate
HsLoadSecret ==
    /\ pc = "start"
    /\ tool \in {"hs_cli", "hs_web"}
    /\ \/ /\ log' = Append(log, Req("secret", "aws", HsSecretPath, "fail"))
          /\ Fail("SecretError")
          /\ UNCHANGED <<credentials, hs_token, hs_auth_type>>
       \/ \E b \in HsBlobs, exch \in {"ok", "fail"} :
          LET r == Authenticate(b, cfg.always_refresh, exch)
          IN /\ log' = << Req("secret", "aws", HsSecretPath, "ok") >> \o r.requests
             /\ credentials' = b
             /\ IF r.error = None
                THEN /\ hs_token' = r.token
                     /\ hs_auth_type' = r.auth_type
                     /\ Goto(HsDispatch)
                ELSE /\ pc' = "done"
                     /\ outcome' = ErrorWith(r.error, r.detail)
                     /\ UNCHANGED <<hs_token, hs_auth_type>>
    /\ UNCHANGED <<run, sfLocals, records, after, discLocals>>

\* the m records of the p-th page the server serves
Page(p, m) == [i \in 1..m |-> [page |-> p, idx |-> i]]

\* get_all_properties: the 'shape' query and the first call of 'all'
HsGetProperties ==
    /\ pc \in {"hs_shape", "hs_all_props"}
    /\ \E st \in QueryStatuses :
       /\ log' = Append(log, Req("hs:properties", HsBase, HsObject, st))
       /\ IF st # "ok" THEN Fail(ErrorOf(st))
          ELSE IF pc = "hs_all_props" /\ 0 < cfg.query_limit THEN Goto("hs_fetch")
          ELSE pc' = "done" /\ outcome' = Ok
    /\ credentials' = NoCredentials
    /\ records' = << >>
    /\ after' = None
    /\ UNCHANGED <<run, sfLocals, hs_token, hs_auth_type, discLocals>>

\* the direct 'count' query: count_records never raises
HsCount ==
    /\ pc = "hs_count"
    /\ \E st \in QueryStatuses, body \in CountBodies("total") :
       /\ st # "ok" => body = EmptyDict
       /\ log' = Append(log, WithBody(Req("hs:count", HsBase, HsObject, st), body))
       /\ rows' = << [name |-> HsObject,
                      count |-> ToString(CountResult(st, body, "total"))] >>
    /\ pc' = "done"
    /\ outcome' = Ok
    /\ credentials' = NoCredentials
    /\ UNCHANGED <<run, sfLocals, hsLocals, objects>>

\* list_records (GET) and search_records (POST): one request of min(limit, 100)
HsListOrSearch ==
    /\ pc \in {"hs_list", "hs_search"}
    /\ \E st \in QueryStatuses, m \in {0} \cup ({Min(cfg.query_limit, HsPageMax)} \cap Nat) :
       /\ st # "ok" => m = 0
       /\ log' = Append(log, [Req(IF pc = "hs_list" THEN "hs:list" ELSE "hs:search",
                                  HsBase, HsObject, st)
                              EXCEPT !.n = Min(cfg.query_limit, HsPageMax), !.got = m])
       /\ records' = Page(1, m)
       /\ pc' = "done"
       /\ outcome' = Raised(st)
    /\ credentials' = NoCredentials
    /\ UNCHANGED <<run, sfLocals, hs_token, hs_auth_type, after, discLocals>>

\* the page sizes the server answers a request for batch_size records with
\* (nothing makes the server keep to the size it was asked for)
PageSizes(batch_size) == {0, 1, batch_size, batch_size + 1}

\* the search requests of the fetch loop made so far
PagesAsked == Cardinality({ i \in 1..Len(log) : log[i].kind = "hs:fetch_page" })

\* batch_size = min(100, limit - len(records)), asking for the whole limit each time
BatchSizeWhole(held) == Min(HsPageMax, cfg.query_limit)

\* batch_size = min(100, limit - len(records))
BatchSize(held) == Min(HsPageMax, cfg.query_limit - held)

\* if not after: break
LoopBreaksOnCursorOnly(cursor, batch) == ~Truthy(cursor)

\* if not after or not batch: break
LoopBreaks(cursor, batch) == ~Truthy(cursor) \/ batch = << >>

\* records.extend(batch), putting the batch in front
ExtendInFront(held, batch) == batch \o held

\* records.extend(batch)
Extend(held, batch) == held \o batch

\* one iteration of the loop of fetch_all_records / fetch_all
HsFetchPage ==
    /\ pc = "hs_fetch"
    /\ Len(records) < cfg.query_limit
    /\ LET batch_size == BatchSize(Len(records))
       IN \E st \in QueryStatuses, m \in PageSizes(batch_size), more \in BOOLEAN :
          LET batch == Page(PagesAsked + 1, m)
              cursor == IF more THEN "cursor-" \o ToString(PagesAsked + 1) ELSE None
              request == PageReq(HsBase, HsObject, batch_size, after, st)
          IN /\ st # "ok" => (m = 0 /\ ~more)
             /\ IF st # "ok"
                THEN /\ log' = Append(log, request)
                     /\ Fail(ErrorOf(st))
                     /\ UNCHANGED <<records, after>>
                ELSE /\ log' = Append(log, Answered(request, m, cursor))
                     /\ records' = Extend(records, batch)
                     /\ after' = cursor
                     /\ IF LoopBreaks(cursor, batch) \/ ~(Len(records') < cfg.query_limit)
                        THEN pc' = "done" /\ outcome' = Ok
                        ELSE Goto("hs_fetch")
    /\ UNCHANGED <<run, credentials, sfLocals, hs_token, hs_auth_type, discLocals>>

(***************************************************************************)
(* HubSpot: discovery.                                                     *)
(***************************************************************************)
STANDARD_OBJECTS == << "deals", "line_items" >>

HsObj(name, label_chars, type) ==
    [name |-> name, label |-> "", queryable |-> TRUE,
     name_chars |-> Spell[name], label_chars |-> label_chars, type |-> type]

\* the custom schemas the schema listing can return
HsSchemaPool ==
    { HsObj("p1_car", Spell["Car"], "custom"), HsObj("p1_lead", Spell["Lead"], "custom") }

\* [{'name': o, 'label': o.title(), 'type': 'standard'} for o in STANDARD_OBJECTS]
StandardObjects ==
    [i \in 1..Len(STANDARD_OBJECTS) |->
        HsObj(STANDARD_OBJECTS[i], Title(Spell[STANDARD_OBJECTS[i]]), "standard")]

\* a schema listing that lets the failure of its request out
SchemasRaisesOnFailure(st) == st # "ok"

\* get_object_schemas / get_schemas: `except Exception: return []` lets nothing out
SchemasRaises(st) == FALSE

\* get_object_schemas / get_schemas (a failure gives the empty list), then the filter
HsGetSchemas ==
    /\ pc = "hs_schemas"
    /\ \E st \in QueryStatuses, schemas \in Lists(HsSchemaPool) :
       /\ st # "ok" => schemas = << >>
       /\ log' = Append(log, WithBody(Req("hs:schemas", HsBase, "", st),
                                      IF st = "ok" THEN "results" :> schemas ELSE EmptyDict))
       /\ IF SchemasRaises(st)
          THEN Fail(ErrorOf(st)) /\ UNCHANGED <<objects, rows>>
          ELSE LET filtered == ApplyFilter(cfg.search_filter, StandardObjects \o schemas)
               IN /\ objects' = filtered
                  /\ rows' = << >>
                  /\ IF filtered = << >>
                     THEN pc' = "done" /\ outcome' = Ok
                     ELSE Goto("hs_countloop")
    /\ credentials' = NoCredentials
    /\ UNCHANGED <<run, sfLocals, hsLocals>>

\* one iteration of the counting loop
HsCountObject ==
    /\ pc = "hs_countloop"
    /\ LET obj == objects[Len(rows) + 1]
           last == Len(rows) + 1 = Len(objects)
       IN /\ \E st \in QueryStatuses, body \in CountBodies("total") :
             /\ st # "ok" => body = EmptyDict
             /\ log' = log \o << WithBody(Req("hs:count", HsBase, obj.name, st), body) >>
                            \o Pause
             /\ rows' = Append(rows, [name |-> obj.name,
                                      count |-> CountStr(CountResult(st, body, "total"))])
          /\ IF last THEN pc' = "done" /\ outcome' = Ok ELSE Goto("hs_countloop")
    /\ UNCHANGED <<run, credentials, sfLocals, hsLocals, objects>>

(***************************************************************************)
(* The runs.                                                               *)
(***************************************************************************)
SfQueryTypes == {"shape", "count", "all", "custom"}
CustomQueries == {None, "SELECT Name FROM Lead"}
SearchFilters == {None, "ea", "CAR"}
HsQueryTypes == {"shape", "count", "list", "all", "search"}
\* query_limit: any integer in CONFIG, at least 1 in the web form
HsLimits(t) == (IF t = "hs_cli" THEN {0 - 1, 0} ELSE {}) \cup {1, 2, 3, HsPageMax + 1}

Config(auto_refresh, force, query_type, custom_query, query_limit, search_filter) ==
    [auto_refresh |-> auto_refresh, always_use_oauth |-> force, always_refresh |-> force,
     query_type |-> query_type, custom_query |-> custom_query,
     query_limit |-> query_limit, search_filter |-> search_filter]

\* the parameters a run of the tool can be started with
Configs(t, o) ==
    IF t \in {"sf_cli", "sf_web"}
    THEN IF o = "query"
         THEN { c \in { Config(ar, f, qt, cq, 0, None) :
                         ar \in (IF t = "sf_cli" THEN BOOLEAN ELSE {FALSE}), f \in BOOLEAN,
                         qt \in SfQueryTypes, cq \in CustomQueries } :
                \* the web form has the SOQL box for 'custom' only, and wants it filled
                t = "sf_web" => (Truthy(c.custom_query) <=> c.query_type = "custom") }
         ELSE { Config(FALSE, f, None, None, 0, sf) : f \in BOOLEAN, sf \in SearchFilters }
    ELSE IF o = "query"
         THEN { Config(FALSE, f, qt, None, ql, None) :
                f \in BOOLEAN, qt \in HsQueryTypes, ql \in HsLimits(t) }
         ELSE { Config(FALSE, f, None, None, 0, sf) : f \in BOOLEAN, sf \in SearchFilters }

Init ==
    /\ tool \in {"sf_cli", "sf_web", "hs_cli", "hs_web"}
    /\ op \in {"query", "discover"}
    /\ cfg \in Configs(tool, op)
    /\ pc = "start"
    /\ credentials = NoCredentials
    /\ instance_url = None
    /\ access_token = None
    /\ soql = None
    /\ phase = "initial"
    /\ hs_token = None
    /\ hs_auth_type = None
    /\ records = << >>
    /\ after = None
    /\ objects = << >>
    /\ rows = << >>
    /\ log = << >>
    /\ outcome = Running

Next ==
    \/ SfLoadSecret
    \/ SfRefreshGrant
    \/ SfPasswordGrant
    \/ SfClientCredentialsGrant
    \/ SfDescribe
    \/ SfQuery
    \/ SfRefetchSecret
    \/ SfRetryQuery
    \/ SfListObjects
    \/ SfCountObject
    \/ HsLoadSecret
    \/ HsGetProperties
    \/ HsCount
    \/ HsListOrSearch
    \/ HsFetchPage
    \/ HsGetSchemas
    \/ HsCountObject

Spec == Init /\ [][Next]_vars

(***************************************************************************)
(* Two auth resolutions side by side: two HubSpot clients, each given one  *)
(* of two blobs that have the same keys.  rows holds what each resolution  *)
(* returned or raised.                                                     *)
(***************************************************************************)
BlobPairs ==
    { p \in HsBlobs \X HsBlobs : DOMAIN p[1] = DOMAIN p[2] }

InitPair ==
    /\ tool \in {"hs_cli", "hs_web"}
    /\ op = "auth_pair"
    /\ cfg \in { Config(FALSE, f, None, None, 0, None) : f \in BOOLEAN }
    /\ pc = "pair"
    /\ credentials \in BlobPairs
    /\ instance_url = None
    /\ access_token = None
    /\ soql = None
    /\ phase = "initial"
    /\ hs_token = None
    /\ hs_auth_type = None
    /\ records = << >>
    /\ after = None
    /\ objects = << >>
    /\ rows = << >>
    /\ log = << >>
    /\ outcome = Running

\* the next client resolves its blob
PairAuthenticate ==
    /\ pc = "pair"
    /\ \E exch \in {"ok", "fail"} :
       LET r == Authenticate(credentials[Len(rows) + 1], cfg.always_refresh, exch)
       IN /\ rows' = Append(rows, r)
          /\ log' = log \o r.requests
    /\ pc' = IF Len(rows) + 1 = Len(credentials) THEN "done" ELSE "pair"
    /\ outcome' = IF Len(rows) + 1 = Len(credentials) THEN Ok ELSE outcome
    /\ UNCHANGED <<run, credentials, sfLocals, hsLocals, objects>>

NextPair == PairAuthenticate

SpecPair == InitPair /\ [][NextPair]_vars

(***************************************************************************)
(* One HubSpot client authenticated again and again.  records holds how    *)
(* each attempt ended, objects the blob as it was handed to the last       *)
(* attempt, rows what the last successful resolution chose.                *)
(***************************************************************************)
MaxAttempts == 3

\* the blobs handed to the attempts: with or without a legacy key, with or
\* without the three OAuth fields, with or without stored tokens
AttemptBlobs ==
    { b \in HsBlobs :
        /\ Get(b, "hapikey") # "" /\ Get(b, "access_token") # "" /\ Get(b, "token") # ""
        /\ Get(b, "api_key") = None /\ Get(b, "refresh_token") # "rt-B"
        /\ (HasOauth(b) \/ DOMAIN b \cap {"client_id", "client_secret", "refresh_token"} = {}) }

\* the tag written before the token exchange is tried
AssignedTagFirst(r, token, auth_type) ==
    IF r.error = None THEN [token |-> r.token, auth_type |-> r.auth_type]
    ELSE IF r.error = "TokenError" THEN [token |-> token, auth_type |-> "bearer"]
    ELSE [token |-> token, auth_type |-> auth_type]

\* self.token and self.auth_type after authenticate: both assigned on the three
\* paths that return, neither on the paths that raise (the exchange raises
\* before `self.token =` is executed)
Assigned(r, token, auth_type) ==
    IF r.error = None THEN [token |-> r.token, auth_type |-> r.auth_type]
    ELSE [token |-> token, auth_type |-> auth_type]

InitReauth ==
    /\ tool \in {"hs_cli", "hs_web"}
    /\ op = "reauth"
    /\ cfg \in { Config(FALSE, f, None, None, 0, None) : f \in BOOLEAN }
    /\ pc = "auth"
    /\ credentials = NoCredentials
    /\ instance_url = None
    /\ access_token = None
    /\ soql = None
    /\ phase = "initial"
    /\ hs_token = None
    /\ hs_auth_type = None
    /\ records = << >>
    /\ after = None
    /\ objects = << >>
    /\ rows = << >>
    /\ log = << >>
    /\ outcome = Running

\* authenticate(credentials, always_refresh) on the client as it stands; the
\* blob is only read
Reauthenticate ==
    /\ pc = "auth"
    /\ Len(records) < MaxAttempts
    /\ \E b \in AttemptBlobs, exch \in {"ok", "fail"} :
       LET r == Authenticate(b, cfg.always_refresh, exch)
           a == Assigned(r, hs_token, hs_auth_type)
       IN /\ hs_token' = a.token
          /\ hs_auth_type' = a.auth_type
          /\ credentials' = b
          /\ objects' = << b >>
          /\ records' = Append(records, r.error)
          /\ rows' = IF r.error = None
                     THEN << [token |-> r.token, auth_type |-> r.auth_type] >>
                     ELSE rows
          /\ log' = log \o r.requests
    /\ pc' = IF Len(records) + 1 = MaxAttempts THEN "done" ELSE "auth"
    /\ outcome' = IF Len(records) + 1 = MaxAttempts THEN Ok ELSE outcome
    /\ UNCHANGED <<run, sfLocals, after>>

NextReauth == Reauthenticate

SpecReauth == InitReauth /\ [][NextReauth]_vars

(***************************************************************************)
(* Export: flattening the records and writing the sheet.                   *)
(*                                                                         *)
(* A dict that is iterated is an ordered dict: its keys in insertion order *)
(* and its values.  A value is a string or a nested one-entry mapping.     *)
(***************************************************************************)
StrVal(s) == [t |-> "str", k |-> "", v |-> s]
DictVal(k, s) == [t |-> "dict", k |-> k, v |-> s]

\* str(value) of the nested mapping {k: s}
Str(value) == "{'" \o value.k \o "': '" \o value.v \o "'}"

\* a cell that takes the value as it is
CellRaw(value) == value.v

\* the value written to a cell: str(value) if isinstance(value, dict) else value
Cell(value) == IF value.t = "dict" THEN Str(value) ELSE value.v

EmptyOD == [keys |-> << >>, val |-> EmptyDict]

\* d[k] = x
Put(d, k, x) ==
    [keys |-> IF k \in DOMAIN d.val THEN d.keys ELSE Append(d.keys, k),
     val |-> (k :> x) @@ d.val]

\* d.update(e)
RECURSIVE UpdateFrom(_, _, _)
UpdateFrom(d, e, i) ==
    IF i > Len(e.keys) THEN d
    ELSE UpdateFrom(Put(d, e.keys[i], e.val[e.keys[i]]), e, i + 1)

Update(d, e) == UpdateFrom(d, e, 1)

\* {k: v for k, v in d.items() if k != dropped}
Without(d, dropped) ==
    LET Kept(k) == k # dropped
    IN [keys |-> SelectSeq(d.keys, Kept),
        val |-> [k \in DOMAIN d.val \ {dropped} |-> d.val[k]]]

\* a flattening that leaves the id out
FlattenNoId(record) ==
    IF "properties" \in DOMAIN record THEN record["properties"] ELSE EmptyOD

\* flatten_record / flatten: {'id': record.get('id', '')} updated with
\* record.get('properties', {})
Flatten(record) ==
    Update(Put(EmptyOD, "id", StrVal(GetOr(record, "id", ""))),
           GetOr(record, "properties", EmptyOD))

\* code points in increasing order: digits, upper case, underscore, lower case
CodeOrder ==
    <<"0", "1", "2", "3", "4", "5", "6", "7", "8", "9">> \o UpperLetters \o <<"_">>
    \o LowerLetters

Code(c) == CHOOSE i \in 1..Len(CodeOrder) : CodeOrder[i] = c

\* u < v on strings
RECURSIVE LexLess(_, _)
LexLess(u, v) ==
    IF v = << >> THEN FALSE
    ELSE IF u = << >> THEN TRUE
    ELSE IF Head(u) # Head(v) THEN Code(Head(u)) < Code(Head(v))
    ELSE LexLess(Tail(u), Tail(v))

\* sorted(S) for a set of keys
Sorted(S) ==
    CHOOSE q \in [1..Cardinality(S) -> S] :
        \A i, j \in 1..Cardinality(S) : i < j => LexLess(Spell[q[i]], Spell[q[j]])

\* list(dict.fromkeys(keys))
RECURSIVE FromKeys(_)
FromKeys(keys) ==
    IF keys = << >> THEN << >>
    ELSE LET front == FromKeys(SubSeq(keys, 1, Len(keys) - 1))
             k == keys[Len(keys)]
         IN IF \E i \in 1..Len(front) : front[i] = k THEN front ELSE Append(front, k)

\* k for r in rows for k in r.keys()
RECURSIVE KeysInOrder(_)
KeysInOrder(rs) ==
    IF rs = << >> THEN << >> ELSE Head(rs).keys \o KeysInOrder(Tail(rs))

AllKeys(rs) == UNION { DOMAIN rs[i].val : i \in 1..Len(rs) }

\* all_fields of HubSpotQueryTool.save_to_excel
HsCliFields(rs) == <<"id">> \o Sorted(AllKeys(rs) \ {"id"})

\* all_fields of SalesforceQueryTool.save_to_excel
SfCliFields(rs) == Sorted(AllKeys(rs) \ {"attributes"})

\* all_fields of make_excel, a key again at each new sight of it
WebFieldsRepeated(rs) == KeysInOrder(rs)

\* all_fields of make_excel
WebFields(rs) == FromKeys(KeysInOrder(rs))

\* a data row whose missing fields take the header's text
DataRowEcho(row, fields) ==
    [i \in 1..Len(fields) |->
        IF fields[i] \in DOMAIN row.val THEN Cell(row.val[fields[i]]) ELSE fields[i]]

\* one data row: record.get(field, '') for each field of the header
DataRow(row, fields) ==
    [i \in 1..Len(fields) |->
        IF fields[i] \in DOMAIN row.val THEN Cell(row.val[fields[i]]) ELSE ""]

\* the sheet: the header row, then a row for each record
Sheet(rs, fields) == << fields >> \o [i \in 1..Len(rs) |-> DataRow(rs[i], fields)]

MaxRows == 2

\* the property mappings of a HubSpot record
HsProperties ==
    { EmptyOD,
      [keys |-> <<"a">>, val |-> ("a" :> StrVal("x"))],
      [keys |-> <<"b">>, val |-> ("b" :> StrVal("y"))],
      [keys |-> <<"b", "a">>, val |-> ("a" :> StrVal("x")) @@ ("b" :> DictVal("k", "v"))],
      [keys |-> <<"a", "b">>, val |-> ("a" :> DictVal("k", "v")) @@ ("b" :> StrVal("y"))],
      [keys |-> <<"id">>, val |-> ("id" :> StrVal("9"))] }

\* the records the HubSpot API returns: {id, properties}, either key may be missing
HsRecords ==
    { idf @@ pf :
        idf \in {EmptyDict, "id" :> "1", "id" :> "2"},
        pf \in {EmptyDict} \cup { "properties" :> pr : pr \in HsProperties } }

SfAttributes == DictVal("type", "Account")

\* the records a SOQL query returns: attributes, then the selected fields in the
\* order of the SELECT
SfRecords ==
    { [keys |-> ks,
       val |-> [k \in { ks[i] : i \in 1..Len(ks) } |->
                   IF k = "attributes" THEN SfAttributes
                   ELSE IF k = "Id" THEN StrVal(id)
                   ELSE StrVal("n")]] :
        ks \in { <<"attributes", "Id", "Name">>, <<"attributes", "Id", "AccountId">>,
                 <<"attributes", "Name", "Id">>, <<"attributes", "Name">> },
        id \in {"001", "002"} }

\* lists of at most MaxRows members of pool
RowLists(pool) == UNION { [1..n -> pool] : n \in 0..MaxRows }

InitExport ==
    /\ tool \in {"sf_cli", "sf_web", "hs_cli", "hs_web"}
    /\ op = "export"
    /\ cfg = Config(FALSE, FALSE, "all", None, 0, None)
    /\ pc = "export"
    /\ objects \in RowLists(IF tool \in {"hs_cli", "hs_web"} THEN HsRecords ELSE SfRecords)
    /\ credentials = NoCredentials
    /\ instance_url = None
    /\ access_token = None
    /\ soql = None
    /\ phase = "initial"
    /\ hs_token = None
    /\ hs_auth_type = None
    /\ records = << >>
    /\ after = None
    /\ rows = << >>
    /\ log = << >>
    /\ outcome = Running

\* save_to_excel of the command-line tools: flattening (HubSpot), header, rows;
\* no file for no records
SaveToExcel ==
    /\ pc = "export"
    /\ tool \in {"sf_cli", "hs_cli"}
    /\ LET flat == IF tool = "hs_cli" THEN [i \in 1..Len(objects) |-> Flatten(objects[i])]
                   ELSE objects
           fields == IF tool = "hs_cli" THEN HsCliFields(flat) ELSE SfCliFields(flat)
       IN IF objects = << >>
          THEN records' = << >> /\ rows' = << >>
          ELSE records' = flat /\ rows' = Sheet(flat, fields)
    /\ pc' = "done"
    /\ outcome' = Ok
    /\ UNCHANGED <<run, credentials, sfLocals, hs_token, hs_auth_type, after, objects, log>>

\* the web tabs: [client.flatten(r) for r in records] and the comprehension
\* that leaves 'attributes' out
WebFlatten ==
    /\ pc = "export"
    /\ tool \in {"sf_web", "hs_web"}
    /\ records' = [i \in 1..Len(objects) |->
                      IF tool = "hs_web" THEN Flatten(objects[i])
                      ELSE Without(objects[i], "attributes")]
    /\ pc' = "make_excel"
    /\ UNCHANGED <<run, credentials, sfLocals, hs_token, hs_auth_type, after, objects,
                   rows, log, outcome>>

\* make_excel: an empty workbook for no records
MakeExcel ==
    /\ pc = "make_excel"
    /\ rows' = IF records = << >> THEN << >> ELSE Sheet(records, WebFields(records))
    /\ pc' = "done"
    /\ outcome' = Ok
    /\ UNCHANGED <<run, credentials, sfLocals, hsLocals, objects, log>>

NextExport ==
    \/ SaveToExcel
    \/ WebFlatten
    \/ MakeExcel

SpecExport == InitExport /\ [][NextExport]_vars

(***************************************************************************)
(* The sidebar of the web UI (app.py): the pasted cloud credentials.  Two  *)
(* script runs side by side, each given one of two pasted texts that       *)
(* differ at most in their Expiration entry, both starting from the same   *)
(* session state (objects), region and clock (cfg).  rows holds what each  *)
(* run left: the session state and the messages it showed.                 *)
(***************************************************************************)
\* datetime.fromisoformat(expiry.replace("Z", "+00:00")): the timestamps it can
\* read, as seconds of the day; any other text raises
IsoSeconds ==
    ("2026-01-01T09:00:00Z" :> 32400) @@ ("2026-01-01T10:20:00Z" :> 37200)
      @@ ("2026-01-01T12:00:00+00:00" :> 43200)

\* datetime.now(timezone.utc), as seconds of the same day
Clock == {36000, 43200}

AwsCredentials ==
    { Field("AccessKeyId", a) @@ Field("SecretAccessKey", s) @@ Field("SessionToken", t)
        @@ Field("Expiration", e) :
        a \in {None, "ASIA"}, s \in {None, "sk"}, t \in {None, "st"},
        e \in {None, "", "in an hour"} \cup DOMAIN IsoSeconds }

\* what the text area can hold: nothing, text that is not JSON, a JSON object
Pastes ==
    {[text |-> "blank", raw |-> EmptyDict], [text |-> "invalid", raw |-> EmptyDict]}
      \cup { [text |-> "object", raw |-> c] : c \in AwsCredentials }

NoExpiration(raw) == [k \in DOMAIN raw \ {"Expiration"} |-> raw[k]]

PastePairs ==
    { p \in Pastes \X Pastes :
        p[1].text = p[2].text /\ NoExpiration(p[1].raw) = NoExpiration(p[2].raw) }

\* boto3.Session(aws_access_key_id=..., aws_secret_access_key=...,
\*               aws_session_token=raw.get("SessionToken"), region_name=region)
Boto3Session(raw, region) ==
    [aws_access_key_id |-> raw["AccessKeyId"],
     aws_secret_access_key |-> raw["SecretAccessKey"],
     aws_session_token |-> Get(raw, "SessionToken"),
     region_name |-> region]

\* an expiry that is never looked at
ExpiredNever(raw, now) == FALSE

\* expired: the Expiration entry is truthy, reads as a timestamp, and
\* total_secs <= 0
Expired(raw, now) ==
    /\ Truthy(Get(raw, "Expiration"))
    /\ raw["Expiration"] \in DOMAIN IsoSeconds
    /\ IsoSeconds[raw["Expiration"]] - now <= 0

Message(level, text, hours, minutes) ==
    [level |-> level, text |-> text, hours |-> hours, minutes |-> minutes]

\* the countdown under "Credentials loaded": nothing without an Expiration, the
\* raw text when it does not read as a timestamp (total_secs is unbound), else
\* hours and minutes, as a warning below 30 minutes
Countdown(raw, now) ==
    LET expiry == Get(raw, "Expiration")
    IN IF ~Truthy(expiry) THEN << >>
       ELSE IF expiry \notin DOMAIN IsoSeconds
       THEN << Message("caption", "Expires: " \o expiry, 0, 0) >>
       ELSE LET total_secs == IsoSeconds[expiry] - now
                hours == total_secs \div 3600
                minutes == (total_secs % 3600) \div 60
            IN << Message(IF total_secs < 1800 THEN "warning" ELSE "caption",
                        IF hours > 0 THEN "Expires in h m" ELSE "Expires in m",
                        hours, minutes) >>

Pop(state, key) == [k \in DOMAIN state \ {key} |-> state[k]]

SidebarResult(state, shown) == [session_state |-> state, shown |-> shown]

\* the body of `with st.sidebar:` from `if creds_json.strip():` on
Sidebar(paste, region, now, state) ==
    IF paste.text = "blank" THEN SidebarResult(state, << >>)
    ELSE IF paste.text = "invalid"
    THEN SidebarResult(Pop(state, "aws_session"), << Message("error", "Invalid JSON", 0, 0) >>)
    ELSE IF Expired(paste.raw, now)
    THEN SidebarResult(Pop(state, "aws_session"),
                       << Message("error", "Credentials have expired", 0, 0) >>)
    ELSE IF ~({"AccessKeyId", "SecretAccessKey"} \subseteq DOMAIN paste.raw)
    THEN SidebarResult(Pop(state, "aws_session"), << Message("error", "Invalid JSON", 0, 0) >>)
    ELSE SidebarResult(("aws_session" :> Boto3Session(paste.raw, region)) @@ state,
                       << Message("success", "Credentials loaded", 0, 0) >>
                         \o Countdown(paste.raw, now))

\* the session states a script run can start from
SessionStates ==
    { EmptyDict,
      "aws_session" :> [aws_access_key_id |-> "ASIA-old", aws_secret_access_key |-> "sk-old",
                        aws_session_token |-> None, region_name |-> "eu-west-1"] }

InitSidebar ==
    /\ tool = "app"
    /\ op = "sidebar"
    /\ cfg \in { [region |-> r, now |-> n] : r \in {"eu-west-1"}, n \in Clock }
    /\ pc = "sidebar"
    /\ credentials \in PastePairs
    /\ objects \in SessionStates
    /\ instance_url = None
    /\ access_token = None
    /\ soql = None
    /\ phase = "initial"
    /\ hs_token = None
    /\ hs_auth_type = None
    /\ records = << >>
    /\ after = None
    /\ rows = << >>
    /\ log = << >>
    /\ outcome = Running

\* the next script run handles its pasted text
SidebarRun ==
    /\ pc = "sidebar"
    /\ rows' = Append(rows, Sidebar(credentials[Len(rows) + 1], cfg.region, cfg.now, objects))
    /\ pc' = IF Len(rows) + 1 = Len(credentials) THEN "done" ELSE "sidebar"
    /\ outcome' = IF Len(rows) + 1 = Len(credentials) THEN Ok ELSE outcome
    /\ UNCHANGED <<run, credentials, sfLocals, hsLocals, objects, log>>

NextSidebar == SidebarRun

SpecSidebar == InitSidebar /\ [][NextSidebar]_vars

(***************************************************************************)
(* The command line: what `if __name__ == "__main__"` makes of a run.      *)
(***************************************************************************)
\* the lines printed for an exception that left the run: run_query /
\* run_search_objects print "Error: ..." and re-raise, __main__ prints
\* "Fatal error: ..."
Printed(o) ==
    IF o.status = "error"
    THEN << "Error: " \o o.error, "Fatal error: " \o o.error >>
    ELSE << >>

\* the exit status of the process: __main__ catches every Exception, prints, and
\* falls off the end of the script; nothing calls sys.exit
ExitStatus(o) == 0

(***************************************************************************)
(* Properties.                                                             *)
(***************************************************************************)
LogIdx == 1..Len(log)
Calls(kinds) == { i \in LogIdx : log[i].kind \in kinds }
Last == log[Len(log)]
IsSfCliQuery == tool = "sf_cli" /\ op = "query"

RefreshErrors ==
    {"SecretError", "TokenError", "RequestException",
     "ValueError: instance_url not found in refreshed credentials",
     "KeyError:token:refresh_token", "KeyError:token:password",
     "KeyError:token:client_credentials"}

\* C1: in the Salesforce command-line run_query a second query call is made only
\* after the first one failed with HTTP 401 while auto_refresh is set, after the
\* secret was fetched again and a forced grant issued a fresh token; it repeats
\* the same SOQL, it is the last request of the run, its result is the run's
\* result, and a 401 that was caught ends either in that retry or in the error of
\* the refresh; there is never a third query call.
C1_ReauthRetriesOnce ==
    IsSfCliQuery =>
      /\ Cardinality(Calls({"query"})) <= 2
      /\ \A i, j \in Calls({"query"}) : i < j =>
            /\ log[i].status = "http401" /\ cfg.auto_refresh
            /\ log[j].arg = log[i].arg
            /\ \E k \in (i + 1)..(j - 1) : log[k].kind = "secret" /\ log[k].status = "ok"
            /\ log[j - 1].kind \in TokenKinds /\ log[j - 1].status = "ok"
            /\ j = Len(log)
            /\ pc = "done"
            /\ outcome.status = (IF log[j].status = "ok" THEN "ok" ELSE "error")
      /\ pc = "retry" =>
            /\ Cardinality(Calls({"query"})) = 1
            /\ Last.kind \in TokenKinds /\ Last.status = "ok"
            /\ access_token = IssuedToken(Last.kind)
            /\ instance_url = credentials["instance_url"]
      /\ (/\ pc = "done" /\ cfg.auto_refresh
          /\ Cardinality(Calls({"query"})) = 1
          /\ \E i \in Calls({"query"}) : log[i].status = "http401")
         => outcome.status = "error" /\ outcome.error \in RefreshErrors

C1_Witness ==
    /\ IsSfCliQuery /\ pc = "done" /\ outcome.status = "ok"
    /\ Cardinality(Calls({"query"})) = 2

ApiKinds ==
    {"query", "describe", "sobjects", "hs:properties", "hs:count", "hs:list",
     "hs:search", "hs:fetch_page", "hs:schemas"}

Failed(r) == r.status # "ok"

SameCall(a, b) == a.kind = b.kind /\ a.arg = b.arg /\ a.n = b.n /\ a.after = b.after

\* the one failure that is retried
RetriedFailure(i) ==
    /\ IsSfCliQuery /\ cfg.auto_refresh
    /\ log[i].kind = "query" /\ log[i].status = "http401"
    /\ Calls({"query"}) \cap 1..(i - 1) = {}

\* the failures the count operation and the schema listing keep to themselves
SoftFailure(i) ==
    \/ log[i].kind \in {"hs:count", "hs:schemas"}
    \/ log[i].kind = "query" /\ op = "discover"

NoReissue ==
    \A i, j \in Calls(ApiKinds) :
        (i < j /\ Failed(log[i]) /\ SameCall(log[i], log[j])) => RetriedFailure(i)

\* C2 (as stated): no call is re-issued after its failure except the Salesforce
\* query that failed with 401 under auto_refresh, and every other failed call
\* (Salesforce query, describe, object listing, any HubSpot call) fails the
\* operation.
C2_Original ==
    /\ NoReissue
    /\ \A i \in Calls(ApiKinds) :
          (Failed(log[i]) /\ ~RetriedFailure(i))
          => (pc = "done" /\ outcome.status = "error" /\ i = Len(log))

\* C2 (amended): no call is re-issued after its failure except the Salesforce
\* query that failed with 401 under auto_refresh; every other failed call is the
\* last request of the run and fails the operation, except the requests of the
\* count operation (HubSpot count, Salesforce discovery count) and the HubSpot
\* schema listing, whose failure is kept (-1, empty list) and never ends the run
\* in an error.
C2_NoRetryElsewhere ==
    /\ NoReissue
    /\ \A i \in Calls(ApiKinds) :
          (Failed(log[i]) /\ ~RetriedFailure(i) /\ ~SoftFailure(i))
          => (pc = "done" /\ outcome.status = "error" /\ i = Len(log))
    /\ \A i \in Calls(ApiKinds) :
          (Failed(log[i]) /\ SoftFailure(i) /\ pc = "done") => outcome.status = "ok"

C2_Witness ==
    /\ IsSfCliQuery /\ ~cfg.auto_refresh /\ pc = "done"
    /\ log # << >> /\ Last.kind = "query" /\ Last.status = "http401"
    /\ outcome.status = "error"

SfTools == {"sf_cli", "sf_web"}
HsTools == {"hs_cli", "hs_web"}

Rank(kind) ==
    IF kind = "token:refresh_token" THEN 1 ELSE IF kind = "token:password" THEN 2 ELSE 3

\* the requests of the token resolution in progress: those after the last fetch
CurrentGrants == { i \in Calls(TokenKinds) : \A k \in Calls({"secret"}) : k < i }

\* C3 (as stated): a token resolution attempts refresh-token, password (the
\* password suffixed with the security token when present) and
\* client-credentials in that order, stops at the first success and returns its
\* token; a failure of the refresh-token or password attempt never propagates:
\* only the client-credentials attempt's failure ends the run.
C3_GrantSequence ==
    tool \in SfTools =>
      /\ \A i, j \in Calls(TokenKinds) :
            (i < j /\ \A k \in Calls({"secret"}) : ~(i < k /\ k < j))
            => (Rank(log[i].kind) < Rank(log[j].kind) /\ log[i].status # "ok")
      /\ credentials # NoCredentials =>
            \A i \in CurrentGrants : log[i].kind = "token:password" =>
                log[i].arg = credentials["password"]
                              \o GetOr(credentials, "security_token", "")
      /\ (log # << >> /\ Last.kind \in TokenKinds /\ Last.status = "ok")
            => access_token = IssuedToken(Last.kind)
      /\ (log # << >> /\ Last.kind \in {"token:refresh_token", "token:password"}
            /\ Last.status # "ok") => pc \in {"grant_password", "grant_cc"}
      /\ outcome.error \notin {"KeyError:token:refresh_token", "KeyError:token:password"}

\* C4 (as stated): with always_use_oauth off, the run holds its token without any
\* token-endpoint request exactly when the blob stores a non-empty access_token,
\* which is then the token used; otherwise the token is the one a grant issued.
C4_StoredTokenOnly ==
    (/\ tool \in SfTools /\ ~cfg.always_use_oauth /\ phase = "initial"
     /\ pc \in {"query", "describe", "sobjects"})
    => LET stored == Truthy(Get(credentials, "access_token"))
       IN /\ (Calls(TokenKinds) = {}) <=> stored
          /\ stored => access_token = credentials["access_token"]
          /\ ~stored => /\ Last.kind \in TokenKinds /\ Last.status = "ok"
                        /\ access_token = IssuedToken(Last.kind)

InstanceUrlErrors ==
    {"ValueError: instance_url not found in credentials",
     "ValueError: instance_url not found in refreshed credentials"}

\* C5 (as stated): while the blob held by the run has no instance_url, no request
\* has been issued since that blob was fetched, and the run ends in the
\* 'instance_url not found' error.
C5_InstanceUrlFirst ==
    (tool \in SfTools /\ credentials # NoCredentials /\ ~Truthy(Get(credentials, "instance_url")))
    => /\ \A i \in CurrentGrants : log[i].status = "not_sent"
       /\ pc = "done" => outcome.error \in InstanceUrlErrors

HsResolved == tool \in HsTools /\ credentials # NoCredentials
ExchangeCalls == Calls({"token:hubspot_refresh"})
Adopted(tok, type) ==
    /\ hs_token = tok /\ hs_auth_type = type
    /\ outcome.status = "running" /\ pc = HsDispatch

\* C6 (as stated): a blob that contains the hapikey field has that key adopted
\* with query-param transport, without any token-exchange call.
C6_Original ==
    (HsResolved /\ "hapikey" \in DOMAIN credentials)
    => (Adopted(credentials["hapikey"], "hapikey") /\ ExchangeCalls = {})

\* C6 (amended): a blob whose hapikey is non-empty has that key adopted verbatim
\* with query-param transport and no token-exchange call is made, whatever OAuth
\* or stored-token fields it also holds and whatever always_refresh is.
C6_LegacyKeyWins ==
    (HsResolved /\ Truthy(Get(credentials, "hapikey")))
    => (Adopted(credentials["hapikey"], "hapikey") /\ ExchangeCalls = {})

C6_Witness ==
    /\ HsResolved /\ Truthy(Get(credentials, "hapikey"))
    /\ HasOauth(credentials) /\ cfg.always_refresh
    /\ Truthy(Get(credentials, "access_token"))
    /\ hs_auth_type = "hapikey"

OneExchange ==
    /\ Cardinality(ExchangeCalls) = 1
    /\ \A i \in ExchangeCalls :
          /\ log[i].arg = credentials["refresh_token"]
          /\ log[i].status = "ok" =>
                Adopted(IssuedToken("token:hubspot_refresh"), "bearer")

\* C7 (as stated): a blob with client_id, client_secret and refresh_token, under
\* always_refresh, gets exactly one token-exchange call whose token is adopted as
\* a bearer token.
C7_Original ==
    (HsResolved /\ HasOauth(credentials) /\ cfg.always_refresh) => OneExchange

\* C7 (amended): a blob with client_id, client_secret and refresh_token and no
\* non-empty hapikey, under always_refresh, gets exactly one token-exchange call
\* (sent with the blob's refresh token) whose token is adopted as a bearer token.
C7_OneExchange ==
    (/\ HsResolved /\ HasOauth(credentials) /\ cfg.always_refresh
     /\ ~Truthy(Get(credentials, "hapikey"))) => OneExchange

C7_Witness ==
    /\ HsResolved /\ HasOauth(credentials) /\ cfg.always_refresh
    /\ Truthy(Get(credentials, "access_token"))
    /\ hs_token = IssuedToken("token:hubspot_refresh") /\ hs_auth_type = "bearer"

\* C8: a failed token exchange ends the resolution in that error: no token and
\* no transport is adopted, stored access_token, token or api_key or not, and
\* no second exchange is tried.
C8_NoFallback ==
    (HsResolved /\ \E i \in ExchangeCalls : log[i].status # "ok")
    => /\ pc = "done" /\ outcome.status = "error" /\ outcome.error = "TokenError"
       /\ hs_token = None /\ hs_auth_type = None
       /\ Cardinality(ExchangeCalls) = 1

C8_Witness ==
    /\ HsResolved /\ pc = "done" /\ outcome.error = "TokenError"
    /\ Truthy(Get(credentials, "access_token"))

StoredStep ==
    /\ HsResolved /\ ~Truthy(Get(credentials, "hapikey"))
    /\ ~(cfg.always_refresh /\ HasOauth(credentials))

\* C9 (as stated): when neither the legacy-key nor the OAuth step applies, the
\* first of access_token, token, api_key present in the blob is adopted as a
\* bearer token, without a network call.
C9_Original ==
    (StoredStep /\ {"access_token", "token", "api_key"} \cap DOMAIN credentials # {})
    => /\ Adopted(IF "access_token" \in DOMAIN credentials THEN credentials["access_token"]
                  ELSE IF "token" \in DOMAIN credentials THEN credentials["token"]
                  ELSE credentials["api_key"], "bearer")
       /\ ExchangeCalls = {}

\* C9 (amended): when neither the legacy-key nor the OAuth step applies, the
\* first of access_token, token, api_key holding a non-empty value is adopted as
\* a bearer token, the later ones are ignored, and no network call is made.
C9_FirstStoredToken ==
    (StoredStep /\ \E k \in {"access_token", "token", "api_key"} : Truthy(Get(credentials, k)))
    => /\ Adopted(IF Truthy(Get(credentials, "access_token")) THEN credentials["access_token"]
                  ELSE IF Truthy(Get(credentials, "token")) THEN credentials["token"]
                  ELSE credentials["api_key"], "bearer")
       /\ ExchangeCalls = {}

C9_Witness ==
    /\ StoredStep /\ HasOauth(credentials)
    /\ Get(credentials, "access_token") = "" /\ Truthy(Get(credentials, "token"))
    /\ Truthy(Get(credentials, "api_key"))
    /\ hs_token = credentials["token"]

\* the blob offers nothing auth resolution can use
NoUsableToken(b) ==
    /\ \A k \in {"hapikey", "access_token", "token", "api_key"} : ~Truthy(Get(b, k))
    /\ ~(cfg.always_refresh /\ HasOauth(b))

SecretValues(b) == { b[k] : k \in DOMAIN b } \ {""}

\* C10: a blob without a usable token field makes auth resolution fail, without
\* any request, with the configuration error whose listing is exactly the blob's
\* key set and holds none of its values; two such blobs with the same keys and
\* different values give the same error.
C10_KeysOnlyError ==
    op = "auth_pair" =>
      /\ \A i \in 1..Len(rows) : NoUsableToken(credentials[i]) =>
            /\ rows[i].error = NoTokenText
            /\ rows[i].detail = DOMAIN credentials[i]
            /\ rows[i].detail \cap SecretValues(credentials[i]) = {}
            /\ rows[i].token = None /\ rows[i].auth_type = None
            /\ rows[i].requests = << >>
      /\ (Len(rows) = 2 /\ NoUsableToken(credentials[1]) /\ NoUsableToken(credentials[2]))
            => (rows[1].error = rows[2].error /\ rows[1].detail = rows[2].detail)

C10_Witness ==
    /\ op = "auth_pair" /\ Len(rows) = 2
    /\ NoUsableToken(credentials[1]) /\ NoUsableToken(credentials[2])
    /\ credentials[1] # credentials[2]
    /\ "refresh_token" \in DOMAIN credentials[1]
    /\ rows[1].error = NoTokenText /\ rows[2].error = NoTokenText


IsFetchAll == tool \in HsTools /\ op = "query" /\ cfg.query_type = "all"
FetchCalls == Calls({"hs:fetch_page"})

\* the records the responses up to log entry k delivered to the fetch loop
RECURSIVE GotUpTo(_)
GotUpTo(k) ==
    IF k = 0 THEN 0
    ELSE GotUpTo(k - 1) + (IF log[k].kind = "hs:fetch_page" THEN log[k].got ELSE 0)

\* the response carried a cursor and a non-empty page
GoesOn(r) == r.status = "ok" /\ Truthy(r.next) /\ r.got > 0

\* C11: whatever the server answers, fetch_all_records / fetch_all issues a search
\* request only while fewer than limit records are held and, after the first, only
\* when the previous response carried a cursor and a non-empty page; it returns at
\* the first response where one of the three fails, makes at most limit requests,
\* and makes none when limit is 0 or less.
C11_FetchStops ==
    IsFetchAll =>
      /\ \A i \in FetchCalls :
            /\ GotUpTo(i - 1) < cfg.query_limit
            /\ \/ log[i - 1].kind = "hs:properties"
               \/ log[i - 1].kind = "hs:fetch_page" /\ GoesOn(log[i - 1])
      /\ pc = "hs_fetch" =>
            /\ Len(records) < cfg.query_limit
            /\ Last.kind = "hs:fetch_page" => GoesOn(Last)
      /\ (pc = "done" /\ outcome = Ok) =>
            \/ cfg.query_limit <= 0 /\ FetchCalls = {}
            \/ /\ Last.kind = "hs:fetch_page" /\ Last.status = "ok"
               /\ ~GoesOn(Last) \/ ~(Len(records) < cfg.query_limit)
      /\ Cardinality(FetchCalls) <= (IF cfg.query_limit > 0 THEN cfg.query_limit ELSE 0)
      /\ Len(records) = GotUpTo(Len(log))

\* the loop went on for as many requests as the limit allows, one record a page
C11_Witness ==
    /\ IsFetchAll /\ pc = "done" /\ outcome = Ok
    /\ cfg.query_limit = HsPageMax + 1
    /\ Cardinality(FetchCalls) = cfg.query_limit
    /\ Truthy(Last.next)


\* C12: fetch_all_records / fetch_all never holds more than limit records: it
\* makes no request once limit records are held, even when the last response
\* carried a cursor, and a page that would take the count past limit is cut to
\* limit.
C12_NeverMoreThanLimit ==
    IsFetchAll =>
      /\ Len(records) <= (IF cfg.query_limit > 0 THEN cfg.query_limit ELSE 0)
      /\ (pc = "hs_fetch") => Len(records) < cfg.query_limit


\* the position of log entry i among the requests of the fetch loop
FetchOrd(i) == Cardinality(FetchCalls \cap 1..i)

\* the server served pages P1..Pn of k records each so far, every page but Pn
\* with a cursor
Served(k, n) ==
    \A i \in FetchCalls :
        FetchOrd(i) <= n =>
            /\ log[i].status = "ok" /\ log[i].got = k
            /\ Truthy(log[i].next) <=> FetchOrd(i) < n

\* the records of pages P1..Pn of k records each, in page order
InPageOrder(k, n) == [j \in 1..(n * k) |-> [page |-> ((j - 1) \div k) + 1, idx |-> ((j - 1) % k) + 1]]

\* the page sizes k (at most 100) and page counts n with n * k = limit
PageScripts ==
    { <<k, cfg.query_limit \div k>> :
        k \in { d \in 1..Min(HsPageMax, cfg.query_limit) : cfg.query_limit % d = 0 } }

\* C13: against a server that serves pages P1..Pn of k records each (k at most
\* 100), all but the last with a cursor, fetch_all_records / fetch_all with
\* limit = n * k makes exactly n requests, none after Pn, and returns exactly the
\* n * k records in page order.
C13_ScriptedPages ==
    (IsFetchAll /\ (pc = "hs_fetch" \/ FetchCalls # {})) =>
      \A kn \in PageScripts :
        Served(kn[1], kn[2]) =>
          /\ Cardinality(FetchCalls) <= kn[2]
          /\ Cardinality(FetchCalls) < kn[2] => (pc # "done" /\ outcome = Running)
          /\ pc = "done" =>
                /\ outcome = Ok
                /\ Cardinality(FetchCalls) = kn[2]
                /\ records = InPageOrder(kn[1], kn[2])
          /\ \A j \in 1..Len(records) : records[j] = InPageOrder(kn[1], kn[2])[j]

\* three one-record pages fetched with limit 3
C13_Witness ==
    /\ IsFetchAll /\ pc = "done" /\ outcome = Ok
    /\ cfg.query_limit = Len(records) /\ Len(records) = Cardinality(FetchCalls)
    /\ Len(records) > 2 /\ Len(records) < HsPageMax
    /\ Served(1, Len(records))


\* C14: every request of the fetch loop asks for min(100, limit minus the records
\* held so far); the first carries no cursor and every later one carries the
\* cursor of the response just before it.
C14_PageRequests ==
    IsFetchAll =>
      \A i \in FetchCalls :
        /\ log[i].n = Min(HsPageMax, cfg.query_limit - GotUpTo(i - 1))
        /\ IF log[i - 1].kind = "hs:fetch_page"
           THEN log[i].after = log[i - 1].next /\ log[i].after # None
           ELSE log[i].after = None

\* a full page of 100 was followed by a request for the one record still missing
C14_Witness ==
    /\ IsFetchAll
    /\ \E i \in FetchCalls :
          /\ log[i].n = 1 /\ log[i].after # None
          /\ log[i - 1].kind = "hs:fetch_page" /\ log[i - 1].got = HsPageMax


\* the requests the count operation made
CountCalls ==
    Calls({"hs:count"}) \cup (IF op = "discover" THEN Calls({"query"}) ELSE {})

CountKey(r) == IF r.kind = "hs:count" THEN "total" ELSE "totalSize"

\* what the count operation is to return for request r
Counted(r) ==
    IF r.status # "ok" THEN 0 - 1
    ELSE IF CountKey(r) \in DOMAIN r.body THEN r.body[CountKey(r)] ELSE 0

\* the object request r counts
CountsObject(r, name) ==
    IF r.kind = "hs:count" THEN r.arg = name ELSE r.arg = "SELECT COUNT() FROM " \o name

\* how a count is shown: discovery shows the sentinel as "Error"
Shown(v) == IF op = "discover" /\ v < 0 THEN "Error" ELSE ToString(v)

\* C15: the count operation of either platform never raises: a timeout, a
\* connection failure or a non-2xx response gives -1, a successful response gives
\* the total it reports, 0 when it reports none; the run goes on.
C15_CountNeverRaises ==
    /\ CountCalls # {} => outcome.status # "error"
    /\ \A i \in CountCalls :
          \E j \in 1..Len(rows) :
             /\ CountsObject(log[i], rows[j].name)
             /\ rows[j].count = Shown(Counted(log[i]))

\* a count that failed on the connection, then a count whose response had no total
C15_Witness ==
    /\ op = "discover" /\ pc = "done" /\ outcome = Ok
    /\ \E i, j \in CountCalls :
          /\ i < j
          /\ log[i].status = "conn_error"
          /\ log[j].status = "ok" /\ log[j].body = EmptyDict
    /\ \E j \in 1..Len(rows) : rows[j].count = "Error"
    /\ \E j \in 1..Len(rows) : rows[j].count = "0"


\* C16: a failing count request gives -1, shown as "Error", and no exception when
\* discovery makes it, and an error raised to the operator when the direct 'count'
\* query type makes it.
C16_CountSentinel ==
    /\ op = "discover" =>
          \A i \in CountCalls :
             Failed(log[i]) =>
                /\ outcome.status # "error"
                /\ \E j \in 1..Len(rows) :
                      CountsObject(log[i], rows[j].name) /\ rows[j].count = "Error"
    /\ (op = "query" /\ cfg.query_type = "count" /\ pc = "done" /\ log # << >>
        /\ Last.kind \in {"hs:count", "query"} /\ Failed(Last))
          => outcome.status = "error"


Listings == Calls({"sobjects", "hs:schemas"})

\* the objects discovery starts from: the listing's answer, after the standard
\* objects on HubSpot
Listed ==
    LET r == log[CHOOSE i \in Listings : TRUE]
    IN IF tool \in SfTools THEN GetOr(r.body, "sobjects", << >>)
       ELSE StandardObjects \o GetOr(r.body, "results", << >>)

\* w contains term, letter case aside
HasTerm(term, w) ==
    \E off \in 0..(Len(w) - Len(term)) :
        \A i \in 1..Len(term) : LowerChar(term[i]) = LowerChar(w[off + i])

Survives(o) ==
    IF Truthy(cfg.search_filter)
    THEN \/ HasTerm(Spell[cfg.search_filter], o.name_chars)
         \/ HasTerm(Spell[cfg.search_filter], o.label_chars)
    ELSE TRUE

\* the rows of the objects request i counts
RowsOf(i) == { j \in 1..Len(rows) : CountsObject(log[i], rows[j].name) }

\* C17: discovery keeps exactly the listed objects whose name or label contains
\* the filter term, letter case aside (all of them without a filter), in list
\* order; it makes one row per kept object, in that order, one object after the
\* other; a count that fails shows "Error" in the row of its object only, and the
\* objects after it are still processed.
C17_Discovery ==
    (op = "discover" /\ Listings # {} /\ outcome.status # "error") =>
      /\ objects = SelectSeq(Listed, Survives)
      /\ Len(rows) <= Len(objects)
      /\ \A j \in 1..Len(rows) : rows[j].name = objects[j].name
      /\ pc = "done" <=> Len(rows) = Len(objects)
      /\ \A i \in CountCalls :
            /\ Cardinality(RowsOf(i)) = 1
            /\ \A j \in RowsOf(i) : rows[j].count = "Error" <=> Failed(log[i])
      /\ \A i1, i2 \in CountCalls :
            i1 < i2 => \A j1 \in RowsOf(i1), j2 \in RowsOf(i2) : j1 < j2
      /\ tool \in HsTools => Cardinality(CountCalls) = Len(rows)

\* a filter dropped a listed object; of the two kept, the first count failed and
\* the second was made all the same
C17_Witness ==
    /\ op = "discover" /\ pc = "done" /\ outcome = Ok
    /\ Truthy(cfg.search_filter)
    /\ Len(objects) = 2 /\ Len(Listed) > 2
    /\ rows[1].count = "Error" /\ rows[2].count = "7"


\* the count requests made for the object called name
CountCallsFor(name) == { i \in CountCalls : CountsObject(log[i], name) }

\* C18: Salesforce discovery makes no count request for an object that is not
\* queryable and shows "N/A" in its row; for every kept queryable object it makes
\* exactly one count request and shows that count or "Error".
C18_QueryableOnly ==
    (op = "discover" /\ tool \in SfTools) =>
      \A j \in 1..Len(rows) :
         IF objects[j].queryable
         THEN /\ Cardinality(CountCallsFor(rows[j].name)) = 1
              /\ \A i \in CountCallsFor(rows[j].name) :
                    rows[j].count = (IF Failed(log[i]) THEN "Error"
                                     ELSE ToString(Counted(log[i])))
         ELSE /\ CountCallsFor(rows[j].name) = {}
              /\ rows[j].count = "N/A"

\* a row "N/A" next to a counted row
C18_Witness ==
    /\ op = "discover" /\ tool \in SfTools /\ pc = "done"
    /\ Len(rows) = 2
    /\ ~objects[1].queryable /\ rows[1].count = "N/A"
    /\ objects[2].queryable /\ rows[2].count = "7"
    /\ Cardinality(CountCalls) = 1


\* C19: in discovery the fixed delay of 100 ms lies between every two successive
\* count requests, in the command-line tools and in the web client, on both
\* platforms.
C19_DelayBetweenCounts ==
    op = "discover" =>
      \A i, j \in CountCalls :
         i < j => \E k \in (i + 1)..(j - 1) :
                     log[k].kind = "sleep" /\ log[k].n = DISCOVER_DELAY

\* C20: every HTTP request to HubSpot or Salesforce (token exchange, count, list,
\* search, paginated fetch, properties, describe, schema and object listing) is
\* made with the fixed timeout of 10 seconds, in every variant of the tool.
C20_TimeoutEverywhere ==
    \A i \in LogIdx :
       (log[i].kind \in ApiKinds \cup TokenKinds \cup {"token:hubspot_refresh"})
          => log[i].timeout = {REQUEST_TIMEOUT}


\* C21 (as stated): a failed object or schema listing gives the empty list,
\* discovery goes on, and no error reaches the operator for it.
C21_Original ==
    op = "discover" =>
      \A i \in Listings : Failed(log[i]) => outcome.status # "error"

\* C21: a failed HubSpot schema listing gives the empty list: discovery goes on
\* with the fixed standard objects alone, counts those the filter keeps, and ends
\* without an error; a failed Salesforce object listing ends discovery at once
\* with its error and no count.
C21_SchemaFailureSoft ==
    op = "discover" =>
      \A i \in Listings :
         Failed(log[i]) =>
            IF tool \in HsTools
            THEN /\ outcome.status # "error"
                 /\ objects = SelectSeq(StandardObjects, Survives)
                 /\ pc = "done" =>
                       (Len(rows) = Len(objects) /\ Cardinality(CountCalls) = Len(objects))
                 /\ pc # "done" => pc = "hs_countloop"
            ELSE /\ pc = "done" /\ outcome.status = "error"
                 /\ i = Len(log) /\ rows = << >>

\* the schema listing failed and both standard objects were counted
C21_Witness ==
    /\ op = "discover" /\ tool \in HsTools /\ pc = "done" /\ outcome = Ok
    /\ \E i \in Listings : log[i].status = "http500"
    /\ Len(rows) = Len(StandardObjects)
    /\ Cardinality(CountCalls) = Len(StandardObjects)


CliTools == {"sf_cli", "hs_cli"}

\* C22: in both command-line tools an exception that leaves the run (secret
\* fetch, authentication, query) ends the process with a non-zero status after
\* its message was printed, and a run that raises nothing ends with status 0.
C22_ExitStatus ==
    (tool \in CliTools /\ pc = "done") =>
      IF outcome.status = "error"
      THEN ExitStatus(outcome) # 0 /\ Printed(outcome) # << >>
      ELSE ExitStatus(outcome) = 0 /\ Printed(outcome) = << >>


Exported == op = "export" /\ pc = "done" /\ rows # << >>

\* the rows that are exported: the flattened records, Salesforce's without
\* 'attributes'
ExportedRows ==
    [i \in 1..Len(records) |->
        IF tool \in SfTools THEN Without(records[i], "attributes") ELSE records[i]]

Header == rows[1]
HeaderKeys == { Header[i] : i \in 1..Len(Header) }
IdKey == IF tool \in HsTools THEN "id" ELSE "Id"

\* the place of key k in the header
Col(k) == CHOOSE i \in 1..Len(Header) : Header[i] = k

\* the row in which key k is seen first, and its place in that row
FirstRow(k) == CHOOSE i \in 1..Len(ExportedRows) :
                  /\ k \in DOMAIN ExportedRows[i].val
                  /\ \A h \in 1..(i - 1) : k \notin DOMAIN ExportedRows[h].val
PlaceIn(k, r) == CHOOSE i \in 1..Len(r.keys) : r.keys[i] = k
SeenBefore(k1, k2) ==
    \/ FirstRow(k1) < FirstRow(k2)
    \/ /\ FirstRow(k1) = FirstRow(k2)
       /\ PlaceIn(k1, ExportedRows[FirstRow(k1)]) < PlaceIn(k2, ExportedRows[FirstRow(k1)])

\* C23: the header row of an exported record sheet is the union of the keys of all
\* rows, with the identifier column (id on HubSpot, Id on Salesforce) first
\* whenever it is present and the other keys after it in a fixed order:
\* lexicographic in the command-line tools, first seen first in the web client.
C23_HeaderOrder ==
    Exported =>
      /\ HeaderKeys = AllKeys(ExportedRows)
      /\ IdKey \in HeaderKeys => Header[1] = IdKey
      /\ \A k1, k2 \in HeaderKeys \ {IdKey} :
            Col(k1) < Col(k2) =>
               IF tool \in CliTools THEN LexLess(Spell[k1], Spell[k2])
               ELSE SeenBefore(k1, k2)


\* what a cell is to show for value x: a nested mapping as its string form
ShownValue(x) == IF x.t = "dict" THEN "{'" \o x.k \o "': '" \o x.v \o "'}" ELSE x.v

\* exported row i is input record i
FromInput(i) ==
    IF tool \in SfTools THEN ExportedRows[i] = Without(objects[i], "attributes")
    ELSE \A k \in DOMAIN GetOr(objects[i], "properties", EmptyOD).val :
            ExportedRows[i].val[k] = objects[i]["properties"].val[k]

\* C24: the sheet built from a non-empty list of rows has one header column for
\* each distinct key of the rows, each key once, and one data row for each input
\* row, in input order; a cell is blank when its row lacks the key, and a nested
\* mapping is written as its string form.
C24_SheetShape ==
    (op = "export" /\ pc = "done" /\ objects # << >>) =>
      /\ rows # << >>
      /\ HeaderKeys = AllKeys(ExportedRows)
      /\ Len(Header) = Cardinality(HeaderKeys)
      /\ Len(rows) = 1 + Len(objects) /\ Len(records) = Len(objects)
      /\ \A i \in 1..Len(objects) :
            /\ FromInput(i)
            /\ Len(rows[i + 1]) = Len(Header)
            /\ \A c \in 1..Len(Header) :
                  rows[i + 1][c] =
                     (IF Header[c] \in DOMAIN ExportedRows[i].val
                      THEN ShownValue(ExportedRows[i].val[Header[c]])
                      ELSE "")

\* two rows with different keys: a blank cell in one, a nested mapping in the other
C24_Witness ==
    /\ Exported /\ Len(rows) = 3 /\ Len(Header) = 3
    /\ \E c \in 1..Len(Header) :
          /\ Header[c] \notin DOMAIN ExportedRows[1].val /\ rows[2][c] = ""
          /\ Header[c] \in DOMAIN ExportedRows[2].val /\ rows[3][c] = "{'k': 'v'}"


Flattened == op = "export" /\ tool \in HsTools /\ pc \in {"make_excel", "done"}

PropertiesOf(record) == GetOr(record, "properties", EmptyOD).val

\* C25 (as stated): the flattened record holds the record's id under 'id' (the
\* empty string for an absent id), every entry of properties, and nothing else.
C25_Original ==
    Flattened =>
      /\ Len(records) = Len(objects)
      /\ \A i \in 1..Len(objects) :
            /\ DOMAIN records[i].val = {"id"} \cup DOMAIN PropertiesOf(objects[i])
            /\ records[i].val["id"] = StrVal(GetOr(objects[i], "id", ""))
            /\ \A k \in DOMAIN PropertiesOf(objects[i]) :
                  records[i].val[k] = PropertiesOf(objects[i])[k]

\* C25: the flattened record is one level deep and holds every entry of
\* properties, the key 'id', and nothing else; 'id' holds the record's id (the
\* empty string for an absent id) unless properties has an entry 'id' of its own,
\* which takes its place; absent properties add nothing.
C25_Flatten ==
    Flattened =>
      /\ Len(records) = Len(objects)
      /\ \A i \in 1..Len(objects) :
            /\ DOMAIN records[i].val = {"id"} \cup DOMAIN PropertiesOf(objects[i])
            /\ records[i].keys[1] = "id"
            /\ \A k \in DOMAIN PropertiesOf(objects[i]) :
                  records[i].val[k] = PropertiesOf(objects[i])[k]
            /\ "id" \notin DOMAIN PropertiesOf(objects[i]) =>
                  records[i].val["id"] = StrVal(GetOr(objects[i], "id", ""))
            /\ "properties" \notin DOMAIN objects[i] => DOMAIN records[i].val = {"id"}

\* a record without id and one without properties, flattened
C25_Witness ==
    /\ Flattened /\ Len(records) = 2
    /\ "id" \notin DOMAIN objects[1] /\ DOMAIN PropertiesOf(objects[1]) = {"a", "b"}
    /\ records[1].val["id"] = StrVal("") /\ DOMAIN records[1].val = {"id", "a", "b"}
    /\ "properties" \notin DOMAIN objects[2] /\ records[2].val = ("id" :> StrVal("2"))


\* the canned query of a query type for the configured object
Canned(query_type) ==
    IF query_type = "count" THEN "SELECT COUNT() FROM Account"
    ELSE IF query_type = "list" THEN "SELECT Id, Name FROM Account LIMIT 20"
    ELSE "SELECT FIELDS(ALL) FROM Account LIMIT n"

\* C26: the Salesforce tool uses the configured custom SOQL only when the query
\* type is 'custom'; for count, list and all every query request carries the
\* canned query of that type for the configured object, whatever custom_query
\* holds.
C26_CustomOnlyWhenCustom ==
    (tool \in SfTools /\ op = "query" /\ cfg.query_type \in {"count", "list", "all"}) =>
      /\ soql \in {None, Canned(cfg.query_type)}
      /\ \A i \in Calls({"query"}) : log[i].arg = Canned(cfg.query_type)


RecordCalls == Calls({"hs:list", "hs:search", "hs:fetch_page"})

\* the object holds at least query_limit records: every response brought as many
\* records as were asked for, and a cursor to the rest while records were missing
PlentyOfRecords ==
    \A i \in RecordCalls :
       /\ log[i].status = "ok" /\ log[i].got = log[i].n
       /\ (log[i].kind = "hs:fetch_page" /\ GotUpTo(i) < cfg.query_limit)
             => Truthy(log[i].next)

\* C27: for the HubSpot query types list, all and search the tool pages on its
\* own until query_limit records are fetched, also when query_limit is above the
\* 100 records of a page and the object holds at least query_limit records.
C27_PaginatesToLimit ==
    (tool \in HsTools /\ op = "query" /\ cfg.query_type \in {"list", "all", "search"}
     /\ cfg.query_limit > 0 /\ pc = "done" /\ outcome = Ok /\ PlentyOfRecords)
       => Len(records) = cfg.query_limit

SidebarDone == op = "sidebar" /\ Len(rows) = 2

\* the i-th pasted Expiration reads as a timestamp that is not after the clock
Passed(i) ==
    LET expiry == Get(credentials[i].raw, "Expiration")
    IN expiry \in DOMAIN IsoSeconds /\ IsoSeconds[expiry] <= cfg.now

HasSession(i) == "aws_session" \in DOMAIN rows[i].session_state

HsCalls == Calls(HsKinds)

\* C29: after a successful HubSpot auth resolution every authenticated request
\* carries the credential in exactly one place: in the Authorization header as
\* a bearer token and not in the query string when the resolved transport is
\* bearer, in the hapikey query parameter and with no Authorization header when
\* it is the legacy key.
C29_CredentialInOnePlace ==
    (tool \in HsTools /\ op \in {"query", "discover"}) =>
      \A i \in HsCalls :
         /\ hs_auth_type \in {"bearer", "hapikey"} /\ Truthy(hs_token)
         /\ hs_auth_type = "bearer" =>
               /\ Get(log[i].headers, "Authorization") = "Bearer " \o hs_token
               /\ "hapikey" \notin DOMAIN log[i].params
         /\ hs_auth_type = "hapikey" =>
               /\ Get(log[i].params, "hapikey") = hs_token
               /\ "Authorization" \notin DOMAIN log[i].headers

\* a legacy-key run that made a GET and two POSTs
C29_Witness ==
    /\ tool \in HsTools /\ hs_auth_type = "hapikey" /\ hs_token = "hk"
    /\ Calls({"hs:properties"}) # {} /\ Cardinality(Calls({"hs:fetch_page"})) = 2
    /\ \A i \in HsCalls : log[i].params = ("hapikey" :> "hk")

\* C30: a HubSpot client's token and transport tag are set together: after any
\* sequence of authentication attempts either both are unset (no attempt has
\* succeeded) or both hold the values chosen by the last successful resolution;
\* a failed resolution leaves both as they were, and no attempt modifies the
\* credential blob it was handed.
C30_SetTogether ==
    op = "reauth" =>
      /\ hs_token = None <=> hs_auth_type = None
      /\ rows = << >> => (hs_token = None /\ hs_auth_type = None)
      /\ rows # << >> => (hs_token = rows[1].token /\ hs_auth_type = rows[1].auth_type)
      /\ (\A i \in 1..Len(records) : records[i] # None) => hs_token = None
      /\ records # << >> => credentials = objects[1]

\* a legacy-key resolution followed by a failed token exchange and by a blob
\* with no usable token: the key and its tag are still in place
C30_Witness ==
    /\ op = "reauth"
    /\ Len(records) = 3 /\ records[1] = None /\ records[2] = "TokenError"
    /\ records[3] \notin {None, "TokenError"}
    /\ hs_token = "hk" /\ hs_auth_type = "hapikey"
    /\ credentials = EmptyDict

====
